---- MODULE Spec2Model ----
(***************************************************************************)
(* A model of the loan-management API (Express + PostgreSQL):              *)
(*   - the vault ledger tables and the update_vault_balance trigger,       *)
(*   - DatabaseConnection.transaction,                                     *)
(*   - the loan-product routes (validators, controller, service) and       *)
(*     LoanProductsService.calculateLoanDetails, whose arithmetic is done  *)
(*     in JavaScript Numbers (IEEE-754 binary64), modelled bit-exactly.    *)
(***************************************************************************)
EXTENDS Integers, Sequences, FiniteSets, TLC

(***************************************************************************)
(* Arbitrary-precision naturals: little-endian sequences of limbs in       *)
(* radix 2^15, without leading (high) zero limbs; << >> is zero.  They     *)
(* carry the 53-bit significands of JavaScript Numbers and their exact     *)
(* products and sums.                                                      *)
(***************************************************************************)
Base == 2^15

Pow2(k) == 2^k

RECURSIVE BigNorm(_)
BigNorm(s) ==
    IF s = << >> THEN << >>
    ELSE IF s[Len(s)] = 0 THEN BigNorm(SubSeq(s, 1, Len(s) - 1))
    ELSE s

RECURSIVE BigFromInt(_)
BigFromInt(n) ==
    IF n = 0 THEN << >> ELSE <<n % Base>> \o BigFromInt(n \div Base)

RECURSIVE BigToInt(_)
BigToInt(s) ==
    IF s = << >> THEN 0 ELSE Head(s) + Base * BigToInt(Tail(s))

RECURSIVE BigAddC(_, _, _)
BigAddC(a, b, c) ==
    IF a = << >> /\ b = << >> THEN (IF c = 0 THEN << >> ELSE <<c>>)
    ELSE LET x == IF a = << >> THEN 0 ELSE Head(a)
             y == IF b = << >> THEN 0 ELSE Head(b)
             s == x + y + c
         IN  <<s % Base>> \o BigAddC(IF a = << >> THEN << >> ELSE Tail(a),
                                     IF b = << >> THEN << >> ELSE Tail(b),
                                     s \div Base)

BigAdd(a, b) == BigAddC(a, b, 0)

RECURSIVE BigMulSmallC(_, _, _)
BigMulSmallC(a, k, c) ==
    IF a = << >> THEN (IF c = 0 THEN << >> ELSE <<c>>)
    ELSE LET s == Head(a) * k + c
         IN  <<s % Base>> \o BigMulSmallC(Tail(a), k, s \div Base)

\* a * k for 0 <= k < Base
BigMulSmall(a, k) == IF k = 0 THEN << >> ELSE BigMulSmallC(a, k, 0)

RECURSIVE BigMul(_, _)
BigMul(a, b) ==
    IF a = << >> \/ b = << >> THEN << >>
    ELSE BigAdd(BigMulSmall(a, Head(b)), BigNorm(<<0>> \o BigMul(a, Tail(b))))

\* quotient and remainder of a by d, 0 < d < Base (schoolbook short division,
\* from the high limb down)
RECURSIVE BigDivSmallR(_, _, _)
BigDivSmallR(a, d, i) ==
    IF i = 0 THEN [q |-> << >>, r |-> 0]
    ELSE LET hi  == BigDivSmallR(a, d, i - 1)
             \* limbs are visited from the top: position Len(a) - i + 1
             cur == hi.r * Base + a[Len(a) - i + 1]
         IN  [q |-> <<cur \div d>> \o hi.q, r |-> cur % d]

BigDivSmall(a, d) ==
    LET res == BigDivSmallR(a, d, Len(a))
    IN  [q |-> BigNorm(res.q), r |-> res.r]

RECURSIVE IntBitLen(_)
IntBitLen(n) == IF n = 0 THEN 0 ELSE 1 + IntBitLen(n \div 2)

BigBitLen(a) ==
    IF a = << >> THEN 0 ELSE 15 * (Len(a) - 1) + IntBitLen(a[Len(a)])

\* a * 2^k
BigShl(a, k) ==
    IF a = << >> THEN << >>
    ELSE BigMulSmall([i \in 1..(k \div 15) |-> 0] \o a, Pow2(k % 15))

\* floor(a / 2^k)
BigShr(a, k) ==
    IF k \div 15 >= Len(a) THEN << >>
    ELSE BigDivSmall(SubSeq(a, (k \div 15) + 1, Len(a)), Pow2(k % 15)).q

\* bit i (0 = least significant) of a
BigBit(a, i) ==
    IF i < 0 \/ (i \div 15) + 1 > Len(a) THEN 0
    ELSE (a[(i \div 15) + 1] \div Pow2(i % 15)) % 2

\* a mod 2^k # 0
BigLowNonZero(a, k) ==
    \/ \E j \in 1..Len(a) : j <= k \div 15 /\ a[j] # 0
    \/ /\ (k \div 15) + 1 <= Len(a)
       /\ a[(k \div 15) + 1] % Pow2(k % 15) # 0

RECURSIVE BigLessR(_, _, _)
BigLessR(a, b, i) ==
    IF i = 0 THEN FALSE
    ELSE IF a[i] # b[i] THEN a[i] < b[i]
    ELSE BigLessR(a, b, i - 1)

BigLess(a, b) ==
    IF Len(a) # Len(b) THEN Len(a) < Len(b) ELSE BigLessR(a, b, Len(a))


(***************************************************************************)
(* JavaScript Numbers.  A finite non-negative binary64 value is            *)
(* [m, e] = m * 2^e with m = << >> (zero) or 2^52 <= m < 2^53.  Every      *)
(* operation returns the exact result rounded to nearest, ties to even,    *)
(* as IEEE-754 prescribes.  The amounts of the model stay far from the     *)
(* subnormal and overflow ranges, which are not represented.               *)
(***************************************************************************)
Precision == 52 + 1

DblZero == [m |-> << >>, e |-> 0]

\* n * 2^e (plus a positive amount below one unit of n when sticky) rounded
\* to Precision bits
RoundBig(n, e, sticky) ==
    LET len == BigBitLen(n) IN
    IF len = 0 THEN DblZero
    ELSE IF len <= Precision
    THEN [m |-> BigShl(n, Precision - len), e |-> e - (Precision - len)]
    ELSE LET sh   == len - Precision
             hi   == BigShr(n, sh)
             half == BigBit(n, sh - 1) = 1
             rest == BigLowNonZero(n, sh - 1) \/ sticky
             up   == half /\ (rest \/ BigBit(hi, 0) = 1)
             m1   == IF up THEN BigAdd(hi, <<1>>) ELSE hi
         IN  IF BigBitLen(m1) > Precision
             THEN [m |-> BigShr(m1, 1), e |-> e + sh + 1]
             ELSE [m |-> m1, e |-> e + sh]

\* the Number nearest to n * 2^e / d, 0 < d < Base
DblFromRatio(n, e, d) ==
    LET qr == BigDivSmall(BigShl(n, 5 * 15), d)
    IN  RoundBig(qr.q, e - 5 * 15, qr.r # 0)

\* an integer as a Number
DblFromInt(n) == RoundBig(BigFromInt(n), 0, FALSE)

\* Number("<n / scale>"): a decimal literal with the digits of n and
\* log10(scale) fraction digits, converted as ECMAScript's StringToNumber does
DblFromDecimal(n, scale) == DblFromRatio(BigFromInt(n), 0, scale)

\* a * b
DblMul(a, b) ==
    IF a.m = << >> \/ b.m = << >> THEN DblZero
    ELSE RoundBig(BigMul(a.m, b.m), a.e + b.e, FALSE)

\* a / d for an integer 0 < d < Base
DblDivInt(a, d) == IF a.m = << >> THEN DblZero ELSE DblFromRatio(a.m, a.e, d)

\* a + b
DblAdd(a, b) ==
    IF a.m = << >> THEN b
    ELSE IF b.m = << >> THEN a
    ELSE LET lo == IF a.e < b.e THEN a.e ELSE b.e
         IN  RoundBig(BigAdd(BigShl(a.m, a.e - lo), BigShl(b.m, b.e - lo)), lo, FALSE)

\* a > b
DblGreater(a, b) ==
    IF a.m = << >> THEN FALSE
    ELSE IF b.m = << >> THEN TRUE
    ELSE IF a.e # b.e THEN a.e > b.e
    ELSE BigLess(b.m, a.m)

\* Number.prototype.toFixed(2), as the integer number of hundredths it prints:
\* the n for which n / 100 - x is closest to zero, the larger n on a tie.
\* It rounds the binary value of x, not the decimal value x was meant to be.
ToFixed2(x) ==
    LET n == BigMulSmall(x.m, 100) IN
    IF x.m = << >> THEN 0
    ELSE IF x.e >= 0 THEN BigToInt(BigShl(n, x.e))
    ELSE BigToInt(BigShr(n, 0 - x.e)) + BigBit(n, (0 - x.e) - 1)

(***************************************************************************)
(* State.                                                                  *)
(***************************************************************************)
VARIABLES
    current_balance,            \* vault_accounts.current_balance, per account
    vault_transactions,         \* ids of the rows of vault_transactions
    vault_transaction_entries,  \* rows of vault_transaction_entries, in creation order
    loan_products,              \* rows of loan_products, per product id (NoRow: none)
    loans,                      \* rows of loans
    response,                   \* the last HTTP response sent
    session,                    \* the PostgreSQL session of DatabaseConnection.transaction
    committed,                  \* rows the database holds durably
    work,                       \* the running DatabaseConnection.transaction call
    repayments,                 \* rows of repayments, in creation order
    penalties,                  \* rows of penalties, in creation order
    borrowers,                  \* rows of borrowers
    creating,                   \* the create-borrower requests being served
    sessions,                   \* rows of sessions, per session id
    refreshing,                 \* the refresh-token requests being served
    pending,                    \* the create-product requests being served
    process                     \* the node process: pool, HTTP server, handlers, exit

vars == <<current_balance, vault_transactions, vault_transaction_entries,
          loan_products, loans, response, session, committed, work,
          repayments, penalties, borrowers, creating, sessions, refreshing,
          pending, process>>

vaultVars == <<current_balance, vault_transactions, vault_transaction_entries>>
productVars == <<loan_products, loans, response>>
workVars == <<session, committed, work>>
loanVars == <<repayments, penalties>>
borrowerVars == <<borrowers, creating>>
authVars == <<sessions, refreshing>>
processVars == <<pending, process>>

(***************************************************************************)
(* The vault ledger: tables vault_accounts, vault_transactions and         *)
(* vault_transaction_entries, and the trigger update_vault_balance.  No    *)
(* service of the repository writes these tables; the operations are the   *)
(* SQL statements the schema admits.                                       *)
(***************************************************************************)
MaxEntries == 2
MaxBalance == 2

\* two of the seeded vault accounts
VaultAccounts == {"Main Cash Vault", "Loan Fund"}
TransactionIds == {1, 2}
EntryTypes == {"debit", "credit"}
Amounts == {1}

\* INSERT INTO vault_accounts ...: current_balance DEFAULT 0
InitVault ==
    /\ current_balance = [a \in VaultAccounts |-> 0]
    /\ vault_transactions = {}
    /\ vault_transaction_entries = << >>

\* the signed amount of an entry: a credit is money entering the account, a
\* debit money leaving it
SignedAmount(ty, amt) == IF ty = "credit" THEN amt ELSE 0 - amt

\* balance_after is a column the inserting statement supplies; nothing in the
\* schema computes or checks it.  The statements modelled supply the account's
\* balance adjusted by the entry, or the balance they read before it.
BalanceAfterValues(a, ty, amt) ==
    {current_balance[a] + SignedAmount(ty, amt), current_balance[a]}

\* the trigger's UPDATE without its WHERE id = NEW.vault_account_id
update_vault_balance_every_account(new) ==
    [a \in VaultAccounts |-> new.balance_after]

\* the row trigger update_vault_balance, AFTER INSERT ON vault_transaction_entries
update_vault_balance(new) ==
    [a \in VaultAccounts |->
        IF a = new.vault_account_id THEN new.balance_after ELSE current_balance[a]]

\* INSERT INTO vault_transactions
InsertVaultTransaction(t) ==
    /\ t \notin vault_transactions
    /\ vault_transactions' = vault_transactions \cup {t}
    /\ UNCHANGED <<current_balance, vault_transaction_entries>>
    /\ UNCHANGED <<productVars, workVars, loanVars, borrowerVars, authVars, processVars>>

\* INSERT INTO vault_transaction_entries: transaction_id and vault_account_id are
\* foreign keys, entry_type is CHECKed; the insert fires update_vault_balance
InsertVaultTransactionEntry(t, a, ty, amt, bal) ==
    LET new == [transaction_id |-> t, vault_account_id |-> a, entry_type |-> ty,
                amount |-> amt, balance_after |-> bal]
    IN  /\ Len(vault_transaction_entries) < MaxEntries
        /\ bal \in (0 - MaxBalance)..MaxBalance
        /\ t \in vault_transactions
        /\ a \in VaultAccounts
        /\ ty \in EntryTypes
        /\ vault_transaction_entries' = Append(vault_transaction_entries, new)
        /\ current_balance' = update_vault_balance(new)
        /\ UNCHANGED vault_transactions
        /\ UNCHANGED <<productVars, workVars, loanVars, borrowerVars, authVars, processVars>>

RECURSIVE Without(_, _)
\* the entries of s that do not belong to transaction t, in order
Without(s, t) ==
    IF s = << >> THEN << >>
    ELSE IF Head(s).transaction_id = t THEN Without(Tail(s), t)
    ELSE <<Head(s)>> \o Without(Tail(s), t)

\* DELETE FROM vault_transactions: entries go with it (ON DELETE CASCADE); no
\* trigger reacts to a deleted entry
DeleteVaultTransaction(t) ==
    /\ t \in vault_transactions
    /\ vault_transactions' = vault_transactions \ {t}
    /\ vault_transaction_entries' = Without(vault_transaction_entries, t)
    /\ UNCHANGED current_balance
    /\ UNCHANGED <<productVars, workVars, loanVars, borrowerVars, authVars, processVars>>

VaultNext ==
    \/ \E t \in TransactionIds : InsertVaultTransaction(t)
    \/ \E t \in TransactionIds, a \in VaultAccounts, ty \in EntryTypes,
          amt \in Amounts :
            \E bal \in BalanceAfterValues(a, ty, amt) :
                InsertVaultTransactionEntry(t, a, ty, amt, bal)
    \/ \E t \in TransactionIds : DeleteVaultTransaction(t)

RECURSIVE Replay(_, _)
\* the balance of account a implied by its entries, replayed in creation order
Replay(s, a) ==
    IF s = << >> THEN 0
    ELSE (IF Head(s).vault_account_id = a THEN SignedAmount(Head(s).entry_type, Head(s).amount) ELSE 0) + Replay(Tail(s), a)

RECURSIVE SumOf(_, _, _)
\* the sum of the amounts of transaction t's entries of type ty
SumOf(s, t, ty) ==
    IF s = << >> THEN 0
    ELSE (IF Head(s).transaction_id = t /\ Head(s).entry_type = ty
          THEN Head(s).amount ELSE 0) + SumOf(Tail(s), t, ty)

(***************************************************************************)
(* DatabaseConnection.transaction(callback).  The callback is a unit of    *)
(* work that inserts rows through the client it is handed and lets every   *)
(* error propagate.  The PostgreSQL session behind the client is part of   *)
(* the model: statements outside a transaction block commit at once, and   *)
(* statements inside one are held until COMMIT.                            *)
(***************************************************************************)
MaxWrites == 2
MaxRuns == 2

Rows == {"r1", "r2", "r3"}

RECURSIVE SeqsUpTo(_, _)
\* the sequences over S of length at most n
SeqsUpTo(S, n) ==
    IF n = 0 THEN {<< >>}
    ELSE LET shorter == SeqsUpTo(S, n - 1)
         IN  shorter \cup {Append(q, x) : q \in shorter, x \in S}

\* what a callback may set out to insert, in order
WritePlans == SeqsUpTo(Rows, MaxWrites) \ {<< >>}

Range(q) == {q[i] : i \in 1..Len(q)}

IdleSession == [inTx |-> FALSE, aborted |-> FALSE, staged |-> {}]

IdleWork == [pc |-> "idle", plan |-> << >>, done |-> 0, issued |-> << >>,
             failed |-> "none", outcome |-> "none", thrown |-> "none", before |-> {},
             runs |-> 0]

InitWork ==
    /\ session = IdleSession
    /\ committed = {}
    /\ work = IdleWork

\* const client = await this.pool.connect(): a call begins.  A failure to
\* connect rejects the call before any statement is sent.
TransactionStart(plan, connected) ==
    /\ work.pc \in {"idle", "done"}
    /\ work.runs < MaxRuns
    /\ work' = [pc |-> IF connected THEN "begin" ELSE "done",
                plan |-> plan, done |-> 0, issued |-> << >>,
                failed |-> IF connected THEN "none" ELSE "connect",
                outcome |-> IF connected THEN "none" ELSE "threw",
                thrown |-> IF connected THEN "none" ELSE "connect",
                before |-> committed, runs |-> work.runs + 1]
    /\ UNCHANGED <<session, committed>>
    /\ UNCHANGED <<vaultVars, productVars, loanVars, borrowerVars, authVars, processVars>>

\* a transaction() that never sends BEGIN
SessionBeginNeverSent(ok) == session

\* the session after BEGIN was sent and answered (ok) or failed
SessionBegin(ok) ==
    IF ok THEN [session EXCEPT !.inTx = TRUE] ELSE session

\* await client.query('BEGIN')
TransactionBegin(ok) ==
    /\ work.pc = "begin"
    /\ session' = SessionBegin(ok)
    /\ work' = [work EXCEPT !.pc = IF ok THEN "callback" ELSE "catch",
                            !.issued = Append(@, "BEGIN"),
                            !.failed = IF ok THEN @ ELSE "BEGIN"]
    /\ UNCHANGED committed
    /\ UNCHANGED <<vaultVars, productVars, loanVars, borrowerVars, authVars, processVars>>

\* the rows a statement of the session sees
Visible == committed \cup (IF session.inTx THEN session.staged ELSE {})

\* the callback's next INSERT through the client.  It fails when the server
\* refuses it (ok = FALSE) or the row exists already (unique violation); a
\* failed statement aborts the open transaction block and the callback throws.
CallbackWrite(ok) ==
    /\ work.pc = "callback"
    /\ work.done < Len(work.plan)
    /\ LET row  == work.plan[work.done + 1]
           good == ok /\ row \notin Visible
       IN  IF good
           THEN /\ IF session.inTx
                   THEN /\ session' = [session EXCEPT !.staged = @ \cup {row}]
                        /\ UNCHANGED committed
                   ELSE /\ committed' = committed \cup {row}
                        /\ UNCHANGED session
                /\ work' = [work EXCEPT !.done = @ + 1]
           ELSE /\ session' = IF session.inTx
                              THEN [session EXCEPT !.aborted = TRUE]
                              ELSE session
                /\ work' = [work EXCEPT !.pc = "catch", !.failed = "callback"]
                /\ UNCHANGED committed
    /\ UNCHANGED <<vaultVars, productVars, loanVars, borrowerVars, authVars, processVars>>

\* the callback throws an error of its own between two statements
CallbackThrow ==
    /\ work.pc = "callback"
    /\ work.done < Len(work.plan)
    /\ work' = [work EXCEPT !.pc = "catch", !.failed = "callback"]
    /\ UNCHANGED <<session, committed>>
    /\ UNCHANGED <<vaultVars, productVars, loanVars, borrowerVars, authVars, processVars>>

\* const result = await callback(client): the callback finished
CallbackReturn ==
    /\ work.pc = "callback"
    /\ work.done = Len(work.plan)
    /\ work' = [work EXCEPT !.pc = "commit"]
    /\ UNCHANGED <<session, committed>>
    /\ UNCHANGED <<vaultVars, productVars, loanVars, borrowerVars, authVars, processVars>>

\* await client.query('COMMIT'); return result.  A COMMIT that fails, or that
\* ends an aborted block, persists nothing.
TransactionCommit(ok) ==
    /\ work.pc = "commit"
    /\ committed' = IF ok /\ session.inTx /\ ~session.aborted
                    THEN committed \cup session.staged ELSE committed
    /\ session' = IdleSession
    /\ work' = [work EXCEPT !.pc = IF ok THEN "release" ELSE "catch",
                            !.issued = Append(@, "COMMIT"),
                            !.failed = IF ok THEN @ ELSE "COMMIT",
                            !.outcome = IF ok THEN "returned" ELSE @]
    /\ UNCHANGED <<vaultVars, productVars, loanVars, borrowerVars, authVars, processVars>>

\* catch (error) { await client.query('ROLLBACK'); throw error; }.  The block
\* ends whether ROLLBACK is answered or the connection is lost under it; in the
\* latter case the await rejects and its error leaves the catch block instead of
\* the one caught.
TransactionRollback(ok) ==
    /\ work.pc = "catch"
    /\ session' = IdleSession
    /\ work' = [work EXCEPT !.pc = "release",
                            !.issued = Append(@, "ROLLBACK"),
                            !.outcome = "threw",
                            !.thrown = IF ok THEN work.failed ELSE "ROLLBACK"]
    /\ UNCHANGED committed
    /\ UNCHANGED <<vaultVars, productVars, loanVars, borrowerVars, authVars, processVars>>

\* finally { client.release(); }
TransactionRelease ==
    /\ work.pc = "release"
    /\ work' = [work EXCEPT !.pc = "done"]
    /\ UNCHANGED <<session, committed>>
    /\ UNCHANGED <<vaultVars, productVars, loanVars, borrowerVars, authVars, processVars>>

WorkNext ==
    \/ \E plan \in WritePlans, connected \in BOOLEAN : TransactionStart(plan, connected)
    \/ \E ok \in BOOLEAN : TransactionBegin(ok)
    \/ \E ok \in BOOLEAN : CallbackWrite(ok)
    \/ CallbackThrow
    \/ CallbackReturn
    \/ \E ok \in BOOLEAN : TransactionCommit(ok)
    \/ \E ok \in BOOLEAN : TransactionRollback(ok)
    \/ TransactionRelease

(***************************************************************************)
(* Loan products: table loan_products, the routes of                       *)
(* loan_products_routes.js with their validators, LoanProductsController   *)
(* and LoanProductsService.  Rates are kept in ten-thousandths             *)
(* (DECIMAL(5,4)), amounts in hundredths (DECIMAL(12,2), DECIMAL(10,2)).   *)
(***************************************************************************)
MaxProducts == 2
MaxSeeded == 1
MaxLoans == 1

NoRow == [row |-> "none"]   \* no row was ever stored under the id
Gone == [row |-> "deleted"]  \* the row was deleted; ids (UUIDs) are not reused

ProductIds == 1..MaxProducts
LoanIds == 1..MaxLoans

InterestTypes == {"flat_monthly", "reducing_balance"}
PenaltyTypes == {"fixed", "percentage"}

Exists(id) == id \in ProductIds /\ loan_products[id] \notin {NoRow, Gone}

\* name.trim(), on the names the model uses
Trim(n) == IF n = "Agri Loan " THEN "Agri Loan" ELSE n

\* LOWER(name), on the names the model uses
Lower(n) ==
    CASE n = "Agri Loan" -> "agri loan"
      [] n = "Agri Loan " -> "agri loan "
      [] n = "Student Quick Loan" -> "student quick loan"
      [] n = "Employee Standard" -> "employee standard"
      [] OTHER -> n

\* INSERT INTO loan_products ... VALUES: the first MaxSeeded seeded products
SeedProducts ==
    [id \in ProductIds |->
        IF id > MaxSeeded THEN NoRow
        ELSE IF id = 1 THEN
            [name |-> "Student Quick Loan", interest_type |-> "flat_monthly",
             interest_rate |-> 3000, max_amount |-> 50000, default_term_days |-> 30,
             grace_days |-> 3, penalty_type |-> "fixed", penalty_value |-> 5000,
             is_active |-> TRUE]
        ELSE IF id = 2 THEN
            [name |-> "Employee Standard", interest_type |-> "flat_monthly",
             interest_rate |-> 2500, max_amount |-> 200000, default_term_days |-> 60,
             grace_days |-> 3, penalty_type |-> "percentage", penalty_value |-> 5,
             is_active |-> TRUE]
        ELSE NoRow]

InitProducts ==
    /\ loan_products = SeedProducts
    /\ loans = {}
    /\ response = [op |-> "none", status |-> 0]

Has(body, f) == f \in DOMAIN body

\* express-validator's optional({ checkFalsy: true }): a field that is absent or
\* falsy ("", 0, false, null) is not validated at all
SkippedNumber(body, f) == ~Has(body, f) \/ body[f] = 0
SkippedString(body, f) == ~Has(body, f) \/ body[f] = ""

\* isFloat({ min: 0.0001, max: 5.0000 }) and at most 4 decimal places
ValidInterestRate(r) == 1 <= r /\ r <= 50000
\* isFloat({ min: 1.00, max: 999999999.99 }) and at most 2 decimal places
ValidAmount(v) == 100 <= v /\ v \div 100 <= 999999999
\* isInt({ min: 1, max: 3650 })
ValidTermDays(d) == 1 <= d /\ d <= 3650
\* isInt({ min: 0, max: 30 })
ValidGraceDays(d) == 0 <= d /\ d <= 30
\* isFloat({ min: 0.01, max: 999999.99 }), and at most 1.0 when the body's own
\* penalty_type (default 'fixed') is 'percentage'
ValidPenaltyValue(body) ==
    /\ 1 <= body.penalty_value /\ body.penalty_value \div 100 <= 999999
    /\ (Has(body, "penalty_type") /\ body.penalty_type = "percentage")
            => body.penalty_value <= 100

AllowedFields == {"name", "interest_type", "interest_rate", "max_amount",
                  "default_term_days", "grace_days", "penalty_type",
                  "penalty_value", "is_active"}

\* validateUpdateLoanProduct
validateUpdateLoanProduct(body) ==
    /\ SkippedNumber(body, "interest_rate") \/ ValidInterestRate(body.interest_rate)
    /\ SkippedNumber(body, "max_amount") \/ ValidAmount(body.max_amount)
    /\ SkippedNumber(body, "default_term_days") \/ ValidTermDays(body.default_term_days)
    /\ SkippedNumber(body, "grace_days") \/ ValidGraceDays(body.grace_days)
    /\ SkippedNumber(body, "penalty_value") \/ ValidPenaltyValue(body)
    /\ SkippedString(body, "interest_type") \/ body.interest_type \in InterestTypes
    /\ SkippedString(body, "penalty_type") \/ body.penalty_type \in PenaltyTypes
    /\ (DOMAIN body) \cap AllowedFields # {}

\* validateCreateLoanProduct: name, interest_rate, max_amount, default_term_days
\* and penalty_value are required
validateCreateLoanProduct(body) ==
    /\ Has(body, "name") /\ body.name # ""
    /\ Has(body, "interest_rate") /\ ValidInterestRate(body.interest_rate)
    /\ Has(body, "max_amount") /\ ValidAmount(body.max_amount)
    /\ Has(body, "default_term_days") /\ ValidTermDays(body.default_term_days)
    /\ SkippedNumber(body, "grace_days") \/ ValidGraceDays(body.grace_days)
    /\ Has(body, "penalty_value") /\ ValidPenaltyValue(body)
    /\ SkippedString(body, "interest_type") \/ body.interest_type \in InterestTypes
    /\ SkippedString(body, "penalty_type") \/ body.penalty_type \in PenaltyTypes

\* body('name').trim(): the sanitizer rewrites req.body.name
Sanitized(body) ==
    IF Has(body, "name") THEN [body EXCEPT !.name = Trim(@)] ELSE body

\* LoanProductsService.productNameExists
productNameExists(name, excludeId) ==
    \E id \in ProductIds :
        /\ Exists(id)
        /\ id # excludeId
        /\ Lower(loan_products[id].name) = Lower(name)

\* the CHECK constraints of loan_products
ChecksHold(row) ==
    /\ row.interest_type \in InterestTypes
    /\ row.penalty_type \in PenaltyTypes

\* LoanProductsService.updateProduct: the row with every allowed field of
\* updateData that is not undefined SET
UpdatedRow(row, updateData) ==
    [f \in DOMAIN row |-> IF Has(updateData, f) THEN updateData[f] ELSE row[f]]

Respond(op, status) == [op |-> op, status |-> status]

\* PUT /api/loan-products/:id
UpdateProduct(id, rawBody) ==
    LET body == Sanitized(rawBody)
        new  == UpdatedRow(loan_products[id], body)
    IN  /\ id \in ProductIds
        /\ IF ~validateUpdateLoanProduct(body)
           THEN /\ response' = Respond("updateProduct", 400)
                /\ UNCHANGED loan_products
           ELSE IF ~Exists(id)
           THEN /\ response' = Respond("updateProduct", 404)
                /\ UNCHANGED loan_products
           ELSE IF /\ Has(body, "name") /\ body.name # ""
                   /\ body.name # loan_products[id].name
                   /\ productNameExists(body.name, id)
           THEN /\ response' = Respond("updateProduct", 409)
                /\ UNCHANGED loan_products
           ELSE IF ~ChecksHold(new)
           THEN /\ response' = Respond("updateProduct", 400)
                /\ UNCHANGED loan_products
           ELSE /\ response' = Respond("updateProduct", 200)
                /\ loan_products' = [loan_products EXCEPT ![id] = new]
        /\ UNCHANGED <<loans, vaultVars, workVars, loanVars, borrowerVars, authVars, processVars>>

\* LoanProductsController.deactivateProduct: updateProduct(id, { is_active: false })
DeactivateProduct(id) ==
    /\ id \in ProductIds
    /\ IF ~Exists(id)
       THEN /\ response' = Respond("deactivateProduct", 404)
            /\ UNCHANGED loan_products
       ELSE /\ response' = Respond("deactivateProduct", 200)
            /\ loan_products' =
                 [loan_products EXCEPT ![id] = UpdatedRow(@, [is_active |-> FALSE])]
    /\ UNCHANGED <<loans, vaultVars, workVars, loanVars, borrowerVars, authVars, processVars>>

\* DELETE /api/loan-products/:id: loans.product_id REFERENCES loan_products(id)
\* refuses the delete of a referenced product (23503)
DeleteProduct(id) ==
    /\ id \in ProductIds
    /\ IF ~Exists(id)
       THEN /\ response' = Respond("deleteProduct", 404)
            /\ UNCHANGED loan_products
       ELSE IF \E l \in loans : l.product_id = id
       THEN /\ response' = Respond("deleteProduct", 409)
            /\ UNCHANGED loan_products
       ELSE /\ response' = Respond("deleteProduct", 200)
            /\ loan_products' = [loan_products EXCEPT ![id] = Gone]
    /\ UNCHANGED <<loans, vaultVars, workVars, loanVars, borrowerVars, authVars, processVars>>

Default(body, f, d) == IF Has(body, f) THEN body[f] ELSE d

\* POST /api/loan-products
CreateProduct(id, rawBody) ==
    LET body == Sanitized(rawBody)
        \* the controller's defaults, then the service's (x || default)
        gd   == Default(body, "grace_days", 3)
        it   == Default(body, "interest_type", "")
        pt   == Default(body, "penalty_type", "")
        new  == [name |-> body.name,
                 interest_type |-> IF it = "" THEN "flat_monthly" ELSE it,
                 interest_rate |-> body.interest_rate,
                 max_amount |-> body.max_amount,
                 default_term_days |-> body.default_term_days,
                 grace_days |-> IF gd = 0 THEN 3 ELSE gd,
                 penalty_type |-> IF pt = "" THEN "fixed" ELSE pt,
                 penalty_value |-> body.penalty_value,
                 is_active |-> Default(body, "is_active", TRUE)]
    IN  /\ id \in ProductIds
        /\ loan_products[id] = NoRow
        /\ \A j \in ProductIds : j < id => loan_products[j] # NoRow
        /\ IF ~validateCreateLoanProduct(body)
           THEN /\ response' = Respond("createProduct", 400)
                /\ UNCHANGED loan_products
           ELSE IF productNameExists(body.name, 0)
           THEN /\ response' = Respond("createProduct", 409)
                /\ UNCHANGED loan_products
           ELSE /\ response' = Respond("createProduct", 201)
                /\ loan_products' = [loan_products EXCEPT ![id] = new]
        /\ UNCHANGED <<loans, vaultVars, workVars, loanVars, borrowerVars, authVars, processVars>>

\* INSERT INTO loans: product_id is a foreign key to loan_products and status
\* defaults to 'draft'; the row is a loan of 150.00 at 0.3000 flat over 30 days.
\* No service of the repository writes this table.
InsertLoan(l, p) ==
    /\ l \in LoanIds
    /\ \A x \in loans : x.id # l
    /\ Exists(p)
    /\ loans' = loans \cup {[id |-> l, product_id |-> p, status |-> "draft",
                            principal_amount |-> 15000, interest_amount |-> 4500]}
    /\ UNCHANGED <<loan_products, response>>
    /\ UNCHANGED <<vaultVars, workVars, loanVars, borrowerVars, authVars, processVars>>

\* the update requests the model sends
UpdateBodies ==
    { [interest_rate |-> 0],
      [interest_rate |-> 50001],
      [interest_rate |-> 2500, max_amount |-> 100000],
      [interest_type |-> "reducing_balance", penalty_type |-> "percentage",
       penalty_value |-> 50],
      [name |-> "agri loan"],
      [unknown |-> 1] }

\* the create requests the model sends
CreateBodies ==
    { [name |-> "Agri Loan ", interest_rate |-> 1, max_amount |-> 100,
       default_term_days |-> 1, penalty_value |-> 1],
      [name |-> "Agri Loan", interest_rate |-> 0, max_amount |-> 100,
       default_term_days |-> 1, penalty_value |-> 1],
      [name |-> "student quick loan", interest_rate |-> 50000, max_amount |-> 100,
       default_term_days |-> 1, penalty_value |-> 1] }

ProductsNext ==
    \/ \E id \in ProductIds, body \in UpdateBodies : UpdateProduct(id, body)
    \/ \E id \in ProductIds, body \in CreateBodies : CreateProduct(id, body)
    \/ \E id \in ProductIds : DeactivateProduct(id)
    \/ \E id \in ProductIds : DeleteProduct(id)
    \/ \E l \in LoanIds, p \in ProductIds : InsertLoan(l, p)

(***************************************************************************)
(* Loans, repayments and penalties.  The repository holds their tables and *)
(* no code that writes them: the operations are the statements the schema  *)
(* admits.  Amounts are in hundredths.                                     *)
(***************************************************************************)
MaxRepayments == 2
MaxPenalties == 1

\* CHECK (status IN (...))
LoanStatuses == {"draft", "approved", "disbursed", "active", "overdue", "paid",
                 "written_off"}

InitLoans ==
    /\ repayments = << >>
    /\ penalties = << >>

\* the row of loan l in table S
LoanRow(S, l) == CHOOSE x \in S : x.id = l

\* UPDATE loans SET status = st WHERE id = l: the CHECK admits every status
UpdateLoanStatus(l, st) ==
    /\ \E x \in loans : x.id = l /\ x.status # st
    /\ st \in LoanStatuses
    /\ loans' = (loans \ {LoanRow(loans, l)})
                    \cup {[LoanRow(loans, l) EXCEPT !.status = st]}
    /\ UNCHANGED <<loan_products, response, repayments, penalties>>
    /\ UNCHANGED <<vaultVars, workVars, borrowerVars, authVars, processVars>>

\* INSERT INTO penalties: loan_id is a foreign key to loans
InsertPenalty(l, amt) ==
    /\ Len(penalties) < MaxPenalties
    /\ \E x \in loans : x.id = l
    /\ penalties' = Append(penalties, [loan_id |-> l, amount |-> amt, is_waived |-> FALSE])
    /\ UNCHANGED <<productVars, repayments>>
    /\ UNCHANGED <<vaultVars, workVars, borrowerVars, authVars, processVars>>

\* INSERT INTO repayments: loan_id is a foreign key to loans; amount_paid and the
\* three allocation columns are what the statement supplies (each allocation
\* defaults to 0), and nothing in the schema relates them
InsertRepayment(l, amt, pen, int, pri) ==
    /\ Len(repayments) < MaxRepayments
    /\ \E x \in loans : x.id = l
    /\ repayments' = Append(repayments,
                            [loan_id |-> l, amount_paid |-> amt,
                             allocation_penalty |-> pen,
                             allocation_interest |-> int,
                             allocation_principal |-> pri])
    /\ UNCHANGED <<productVars, penalties>>
    /\ UNCHANGED <<vaultVars, workVars, borrowerVars, authVars, processVars>>

\* the allocations the statements supply
AllocationAmounts == {0, 4500, 5500, 10000}

\* a penalty of 55.00, repayments of 100.00
LoansNext ==
    \/ \E l \in LoanIds, p \in ProductIds : InsertLoan(l, p)
    \/ \E l \in LoanIds, st \in LoanStatuses : UpdateLoanStatus(l, st)
    \/ \E l \in LoanIds : InsertPenalty(l, 5500)
    \/ \E l \in LoanIds :
          \E pen \in AllocationAmounts, int \in AllocationAmounts,
             pri \in AllocationAmounts :
                InsertRepayment(l, 10000, pen, int, pri)

(***************************************************************************)
(* Borrowers: POST /api/borrowers and DELETE /api/borrowers/:id.  A create *)
(* request is a chain of awaited queries, so requests interleave between   *)
(* them.  Bodies have passed validateCreateBorrower, which trims id_number *)
(* and phone_primary; req.user comes from authenticateToken.               *)
(***************************************************************************)
MaxRequests == 2
MaxPage == 2
MaxLimit == 2

RequestIds == 1..MaxRequests

ROLE_HIERARCHY ==
    [customer |-> 1, collection_officer |-> 2, loan_officer |-> 3,
     auditor |-> 4, admin |-> 5, superuser |-> 6]

\* ROLE_HIERARCHY[role] || 0
RoleLevel(role) == IF role \in DOMAIN ROLE_HIERARCHY THEN ROLE_HIERARCHY[role] ELSE 0

\* authorizeRoles(allowedRoles) applied to req.user.role: TRUE when next() is called
authorizeRoles(allowedRoles, userRole) ==
    \/ userRole \in allowedRoles
    \/ \E requiredRole \in allowedRoles : RoleLevel(userRole) >= RoleLevel(requiredRole)

InitBorrowers ==
    /\ borrowers = {}
    /\ creating = [r \in RequestIds |->
                     [pc |-> "idle", role |-> "", id_number |-> "", phone_primary |-> "",
                      code |-> 0, status |-> 0, message |-> ""]]

\* res.status(...) of a create request, which ends it
Answer(r, status, message) ==
    creating' = [creating EXCEPT ![r].pc = "done", ![r].status = status,
                                 ![r].message = message]

\* router.post('/', authenticateToken, authorizeRoles([...]), validateCreateBorrower, ...)
PostBorrowers(r, role, id_number, phone_primary) ==
    /\ creating[r].pc = "idle"
    /\ LET req == [creating[r] EXCEPT !.role = role, !.id_number = id_number,
                                      !.phone_primary = phone_primary]
       IN  IF authorizeRoles({"loan_officer", "admin", "superuser"}, role)
           THEN creating' = [creating EXCEPT ![r] = [req EXCEPT !.pc = "idNumber"]]
           ELSE creating' = [creating EXCEPT ![r] =
                    [req EXCEPT !.pc = "done", !.status = 403,
                                !.message = "Insufficient permissions"]]
    /\ UNCHANGED <<borrowers, vaultVars, productVars, workVars, loanVars, authVars, processVars>>

\* controller: await borrowerIdNumberExists(id_number)
borrowerIdNumberExists(r) ==
    /\ creating[r].pc = "idNumber"
    /\ IF \E b \in borrowers : b.id_number = creating[r].id_number
       THEN Answer(r, 409, "Borrower with this ID number already exists")
       ELSE creating' = [creating EXCEPT ![r].pc = "phone"]
    /\ UNCHANGED <<borrowers, vaultVars, productVars, workVars, loanVars, authVars, processVars>>

\* controller: await borrowerPhoneExists(phone_primary)
borrowerPhoneExists(r) ==
    /\ creating[r].pc = "phone"
    /\ IF \E b \in borrowers : b.phone_primary = creating[r].phone_primary
       THEN Answer(r, 409, "Borrower with this phone number already exists")
       ELSE creating' = [creating EXCEPT ![r].pc = "code"]
    /\ UNCHANGED <<borrowers, vaultVars, productVars, workVars, loanVars, authVars, processVars>>

\* controller: await generateBorrowerCode(); the code NZM-BOR-<count + 1> is kept
\* as its number
generateBorrowerCode(r) ==
    /\ creating[r].pc = "code"
    /\ creating' = [creating EXCEPT ![r].pc = "insert",
                                    ![r].code = Cardinality(borrowers) + 1]
    /\ UNCHANGED <<borrowers, vaultVars, productVars, workVars, loanVars, authVars, processVars>>

\* a mistaken schema where only borrower_code is unique
ViolatedConstraintsCodeOnly(row) ==
    {c \in {"borrowers_borrower_code_key"} :
        \E b \in borrowers : b.borrower_code = row.borrower_code}

\* the UNIQUE constraints of borrowers that inserting the row violates
ViolatedConstraints(row) ==
    {c \in {"borrowers_borrower_code_key", "borrowers_id_number_key"} :
        \E b \in borrowers :
            \/ c = "borrowers_borrower_code_key" /\ b.borrower_code = row.borrower_code
            \/ c = "borrowers_id_number_key" /\ b.id_number = row.id_number}

\* service createBorrower: the message thrown for error 23505 on the constraint
UniqueViolationMessage(constraint) ==
    IF constraint = "borrowers_id_number_key"
    THEN "Borrower with this ID number already exists"
    ELSE "Borrower already exists"

\* controller: await createBorrower(borrowerData, createdBy), then the response;
\* every message the service throws for 23505 includes 'already exists', which the
\* catch block answers with conflict.  With several constraints violated the
\* database reports one of them.
createBorrower(r) ==
    LET row == [id |-> r, borrower_code |-> creating[r].code,
                id_number |-> creating[r].id_number,
                phone_primary |-> creating[r].phone_primary,
                status |-> "active", kyc_status |-> "incomplete", notes |-> "",
                kyc_approved_by |-> "", kyc_approved_at |-> 0]
    IN  /\ creating[r].pc = "insert"
        /\ IF ViolatedConstraints(row) = {}
           THEN /\ borrowers' = borrowers \cup {row}
                /\ Answer(r, 201, "Borrower created successfully")
           ELSE /\ \E c \in ViolatedConstraints(row) :
                      Answer(r, 409, UniqueViolationMessage(c))
                /\ UNCHANGED borrowers
        /\ UNCHANGED <<vaultVars, productVars, workVars, loanVars, authVars, processVars>>

\* router.delete('/:id', authenticateToken, authorizeRoles(['admin', 'superuser']), ...)
\* and the controller's deleteBorrower, for a borrower no other record refers to
deleteBorrower(role, id) ==
    /\ IF ~authorizeRoles({"admin", "superuser"}, role)
       THEN /\ response' = Respond("deleteBorrower", 403)
            /\ UNCHANGED borrowers
       ELSE IF ~\E b \in borrowers : b.id = id
       THEN /\ response' = Respond("deleteBorrower", 404)
            /\ UNCHANGED borrowers
       ELSE /\ borrowers' = {b \in borrowers : b.id # id}
            /\ response' = Respond("deleteBorrower", 200)
    /\ UNCHANGED <<creating, loan_products, loans, vaultVars, workVars, loanVars, authVars, processVars>>

\* BorrowersService.updateBorrower: the error it throws.  The statement is built
\* as `SET field = 1, ... WHERE id = n` from the fields of updateData that are
\* allowed: the `$` of the placeholders is missing, so the values are never
\* referred to and the uuid column id is compared with the integer n, for which
\* PostgreSQL has no operator.  The statement is rejected and no row changes.
updateBorrower(updateData) ==
    LET allowedFields == {"full_name", "phone_primary", "phone_whatsapp", "email",
                          "id_number", "date_of_birth", "address", "category_id",
                          "employer_or_school", "referrer", "status", "credit_score",
                          "risk_tier", "kyc_status", "notes"}
    IN  IF DOMAIN updateData \cap allowedFields = {}
        THEN "No valid fields to update"
        ELSE "Failed to update borrower"

\* the answer of the three controllers below: 404 when getBorrowerById finds no
\* row, else internalError from the catch block, whatever was thrown
UpdateAnswer(op, id, updateData) ==
    [op |-> op, id |-> id, message |-> updateBorrower(updateData),
     status |-> IF \E b \in borrowers : b.id = id THEN 500 ELSE 404]

\* PATCH /api/borrowers/:id/blacklist
blacklistBorrower(id, reason) ==
    /\ response' = UpdateAnswer("blacklistBorrower", id,
                      [status |-> "blacklisted",
                       notes |-> IF reason # "" THEN "BLACKLISTED: reason" ELSE "BLACKLISTED"])
    /\ UNCHANGED <<borrowers, creating, loan_products, loans, vaultVars, workVars, loanVars,
                   authVars, processVars>>

\* PATCH /api/borrowers/:id/reactivate
reactivateBorrower(id) ==
    /\ response' = UpdateAnswer("reactivateBorrower", id,
                      [status |-> "active", notes |-> "REACTIVATED: now"])
    /\ UNCHANGED <<borrowers, creating, loan_products, loans, vaultVars, workVars, loanVars,
                   authVars, processVars>>

\* PATCH /api/borrowers/:id/kyc-status by user "officer": the controller, and the
\* service's updateKycStatus, which builds updateData
updateKycStatus(id, kyc_status, notes) ==
    LET approval == IF kyc_status = "approved"
                    THEN [kyc_status |-> kyc_status, kyc_approved_at |-> 1,
                          kyc_approved_by |-> "officer"]
                    ELSE [kyc_status |-> kyc_status]
        updateData == IF notes # ""
                      THEN [f \in DOMAIN approval \cup {"notes"} |->
                              IF f = "notes" THEN notes ELSE approval[f]]
                      ELSE approval
    IN  /\ response' = UpdateAnswer("updateKycStatus", id, updateData)
        /\ UNCHANGED <<borrowers, creating, loan_products, loans, vaultVars, workVars,
                       loanVars, authVars, processVars>>

\* BorrowersService.getAllBorrowers without filters: the pagination it returns
\* (getAllCategories and getAllProducts compute the same record)
ServicePagination(limit, offset) ==
    LET total == Cardinality(borrowers)
        totalPages == (total + limit - 1) \div limit
        currentPage == (offset \div limit) + 1
    IN  [page |-> currentPage, limit |-> limit, total_items |-> total,
         total_pages |-> totalPages, has_next |-> currentPage < totalPages,
         has_previous |-> currentPage > 1]

\* ResponseHelper.paginated: the pagination block of the response; x || d is d
\* when the property is absent (and when it is 0 or false)
paginated(pagination) ==
    LET page == Default(pagination, "page", 1)
        limit == Default(pagination, "limit", 10)
    IN  [page |-> IF page = 0 THEN 1 ELSE page,
         limit |-> IF limit = 0 THEN 10 ELSE limit,
         total_items |-> Default(pagination, "totalItems", 0),
         total_pages |-> Default(pagination, "totalPages", 0),
         has_next |-> Default(pagination, "hasNext", FALSE),
         has_previous |-> Default(pagination, "hasPrevious", FALSE)]

\* GET /api/borrowers?page=&limit=
getAllBorrowers(page, limit) ==
    /\ response' = [op |-> "getAllBorrowers", status |-> 200,
                    pagination |-> paginated(ServicePagination(limit, (page - 1) * limit))]
    /\ UNCHANGED <<borrowers, creating, loan_products, loans, vaultVars, workVars, loanVars,
                   authVars, processVars>>

UpdatesNext ==
    \/ \E r \in RequestIds, id_number \in {"ID-001", "ID-002"}, phone_primary \in {"0700000001", "0700000002"} :
            PostBorrowers(r, "loan_officer", id_number, phone_primary)
    \/ \E r \in RequestIds : borrowerIdNumberExists(r)
    \/ \E r \in RequestIds : borrowerPhoneExists(r)
    \/ \E r \in RequestIds : generateBorrowerCode(r)
    \/ \E r \in RequestIds : createBorrower(r)
    \/ \E id \in RequestIds, reason \in {"", "fraud"} : blacklistBorrower(id, reason)
    \/ \E id \in RequestIds : reactivateBorrower(id)
    \/ \E id \in RequestIds, kyc_status \in {"pending", "approved", "rejected"},
          notes \in {"", "seen"} : updateKycStatus(id, kyc_status, notes)
    \/ \E page \in 1..MaxPage, limit \in 1..MaxLimit : getAllBorrowers(page, limit)

BorrowersNext ==
    \/ \E r \in RequestIds, role \in DOMAIN ROLE_HIERARCHY \cup {"guest"},
          id_number \in {"ID-001", "ID-002"}, phone_primary \in {"0700000001", "0700000002"} :
            PostBorrowers(r, role, id_number, phone_primary)
    \/ \E r \in RequestIds : borrowerIdNumberExists(r)
    \/ \E r \in RequestIds : borrowerPhoneExists(r)
    \/ \E r \in RequestIds : generateBorrowerCode(r)
    \/ \E r \in RequestIds : createBorrower(r)
    \/ \E role \in {"auditor", "admin"}, id \in RequestIds : deleteBorrower(role, id)

(***************************************************************************)
(* Sessions: POST /api/auth/login, /logout and /refresh, and the           *)
(* authenticateToken middleware.  A token is the pair of the session it    *)
(* was generated for and its number among the tokens generated for that    *)
(* session: the jwt carries its time of issue and the refresh token is     *)
(* random, so tokens generated at different times differ.  No session      *)
(* reaches expires_at and every user is active.                            *)
(***************************************************************************)
MaxSessions == 2
MaxRefreshes == 2
MaxRefreshRequests == 2

SessionIds == 1..MaxSessions

RefreshRequestIds == 1..MaxRefreshRequests

Tokens == [sid : SessionIds, n : 1..(1 + MaxRefreshes)]

\* the token has been generated and sent to the client in a response
Held(token) ==
    /\ token.n <= sessions[token.sid].generated
    /\ \A q \in RefreshRequestIds :
          ~(refreshing[q].pc = "update" /\ refreshing[q].id = token.sid
              /\ refreshing[q].n = token.n)

InitAuth ==
    /\ sessions = [s \in SessionIds |->
                     [session_token |-> 0, refresh_token |-> 0, is_active |-> FALSE,
                      generated |-> 0]]
    /\ refreshing = [q \in RefreshRequestIds |-> [pc |-> "idle", id |-> 0, refresh_token |-> 0, n |-> 0]]

AuthAnswer(op, status, token) == [op |-> op, status |-> status, token |-> token]

\* loginUser with valid credentials: createSession, 'Login successful'
loginUser(s) ==
    /\ sessions[s].generated = 0
    /\ sessions' = [sessions EXCEPT ![s] =
                      [session_token |-> 1, refresh_token |-> 1, is_active |-> TRUE,
                       generated |-> 1]]
    /\ response' = AuthAnswer("loginUser", 200, [sid |-> s, n |-> 1])
    /\ UNCHANGED <<refreshing, loan_products, loans, vaultVars, workVars, loanVars,
                   borrowerVars, processVars>>

\* UPDATE sessions SET is_active = false WHERE session_token = $1
deactivateSessionByToken(token) ==
    [s \in SessionIds |->
        IF s = token.sid /\ sessions[s].session_token = token.n
        THEN [sessions[s] EXCEPT !.is_active = FALSE]
        ELSE sessions[s]]

\* logoutUser with an Authorization: Bearer header
logoutUser(token) ==
    /\ Held(token)
    /\ sessions' = deactivateSessionByToken(token)
    /\ response' = AuthAnswer("logoutUser", 200, token)
    /\ UNCHANGED <<refreshing, loan_products, loans, vaultVars, workVars, loanVars,
                   borrowerVars, processVars>>

\* refreshToken up to its update: findActiveSessionByRefreshToken, findById and the
\* generation of the new tokens
refreshToken(q, refresh_token) ==
    /\ refreshing[q].pc = "idle"
    /\ Held(refresh_token)
    /\ LET s == refresh_token.sid
       IN  IF sessions[s].refresh_token = refresh_token.n /\ sessions[s].is_active
           THEN /\ sessions[s].generated < 1 + MaxRefreshes
                /\ sessions' = [sessions EXCEPT ![s].generated = @ + 1]
                /\ refreshing' = [refreshing EXCEPT ![q] =
                                    [pc |-> "update", id |-> s, refresh_token |-> refresh_token.n,
                                     n |-> sessions[s].generated + 1]]
                /\ UNCHANGED response
           ELSE /\ response' = AuthAnswer("refreshToken", 401, refresh_token)
                /\ UNCHANGED <<sessions, refreshing>>
    /\ UNCHANGED <<loan_products, loans, vaultVars, workVars, loanVars, borrowerVars, processVars>>

\* refreshToken from its update on: updateSession(session.id, ...), whose result is
\* not looked at, then 'Token refreshed successfully' with the new tokens
updateSession(q) ==
    LET s == refreshing[q].id
        n == refreshing[q].n
    IN  /\ refreshing[q].pc = "update"
        /\ sessions' = [sessions EXCEPT ![s] =
                          IF sessions[s].is_active
                          THEN [@ EXCEPT !.session_token = n, !.refresh_token = n]
                          ELSE @]
        /\ refreshing' = [refreshing EXCEPT ![q] = [pc |-> "idle", id |-> 0, refresh_token |-> 0, n |-> 0]]
        /\ response' = AuthAnswer("refreshToken", 200, [sid |-> s, n |-> n])
        /\ UNCHANGED <<loan_products, loans, vaultVars, workVars, loanVars, borrowerVars, processVars>>

\* authenticateToken: validateSessionAndGetUser(token), then next() or 401
authenticateToken(token) ==
    /\ Held(token)
    /\ IF sessions[token.sid].session_token = token.n /\ sessions[token.sid].is_active
       THEN response' = AuthAnswer("authenticateToken", 200, token)
       ELSE response' = AuthAnswer("authenticateToken", 401, token)
    /\ UNCHANGED <<sessions, refreshing, loan_products, loans, vaultVars, workVars,
                   loanVars, borrowerVars, processVars>>

AuthNext ==
    \/ \E s \in SessionIds : loginUser(s)
    \/ \E token \in Tokens : logoutUser(token)
    \/ \E q \in RefreshRequestIds, token \in Tokens : refreshToken(q, token)
    \/ \E q \in RefreshRequestIds : updateSession(q)
    \/ \E token \in Tokens : authenticateToken(token)

(***************************************************************************)
(* POST /api/loan-products as the chain of awaited queries it is: the name *)
(* check and the insert are separate statements, so requests interleave    *)
(* between them.                                                           *)
(***************************************************************************)
MaxProductRequests == 2

InitProcess ==
    /\ pending = [q \in 1..MaxProductRequests |-> [pc |-> "idle", name |-> ""]]
    /\ process = [exited |-> FALSE, code |-> 0, pool |-> "open", server |-> "none",
                  registered |-> FALSE, connections |-> 0, signals |-> 0,
                  shutdowns |-> 0, timer |-> FALSE]

\* createProduct up to its insert: validateCreateLoanProduct, then
\* productNameExists(name) and the conflict answer
createProductNameExists(q, rawBody) ==
    LET body == Sanitized(rawBody)
    IN  /\ pending[q].pc = "idle"
        /\ IF ~validateCreateLoanProduct(body)
           THEN /\ response' = Respond("createProduct", 400)
                /\ UNCHANGED pending
           ELSE IF productNameExists(body.name, 0)
           THEN /\ response' = Respond("createProduct", 409)
                /\ UNCHANGED pending
           ELSE /\ pending' = [pending EXCEPT ![q] = [pc |-> "insert", name |-> body.name]]
                /\ UNCHANGED response
        /\ UNCHANGED <<loan_products, loans, process, vaultVars, workVars, loanVars,
                       borrowerVars, authVars>>

\* createProduct from its insert on: productsService.createProduct(productData)
\* into the next free row, then 201.  The table has no constraint on name.  The
\* other columns take the values of the first of CreateBodies.
createProductInsert(q, id) ==
    /\ pending[q].pc = "insert"
    /\ id \in ProductIds
    /\ loan_products[id] = NoRow
    /\ \A j \in ProductIds : j < id => loan_products[j] # NoRow
    /\ loan_products' = [loan_products EXCEPT ![id] =
          [name |-> pending[q].name, interest_type |-> "flat_monthly",
           interest_rate |-> 1, max_amount |-> 100, default_term_days |-> 1,
           grace_days |-> 3, penalty_type |-> "fixed", penalty_value |-> 1,
           is_active |-> TRUE]]
    /\ pending' = [pending EXCEPT ![q] = [pc |-> "idle", name |-> ""]]
    /\ response' = Respond("createProduct", 201)
    /\ UNCHANGED <<loans, process, vaultVars, workVars, loanVars, borrowerVars, authVars>>

NamesNext ==
    \/ \E q \in 1..MaxProductRequests, body \in CreateBodies : createProductNameExists(q, body)
    \/ \E q \in 1..MaxProductRequests, id \in ProductIds : createProductInsert(q, id)
    \/ \E id \in ProductIds, body \in UpdateBodies : UpdateProduct(id, body)
    \/ \E id \in ProductIds : DeleteProduct(id)

(***************************************************************************)
(* The node process of server.js.  When the model starts, the modules are  *)
(* loaded: the DatabaseConnection singleton exists, with its pool and its  *)
(* own SIGINT and SIGTERM handlers, and startServer is running.            *)
(* process.shutdowns counts the gracefulShutdown calls that wait in        *)
(* `await db.closePool()`.                                                 *)
(***************************************************************************)
MaxSignals == 3
MaxConnections == 2

\* process.exit(code)
Exit(code) == [process EXCEPT !.exited = TRUE, !.code = code]

\* startServer up to app.listen: exit(1) when the database did not initialize
startServer(dbInitialized) ==
    /\ ~process.exited /\ process.server = "none"
    /\ process' = IF dbInitialized THEN [process EXCEPT !.server = "listening"] ELSE Exit(1)
    /\ UNCHANGED <<pending, vaultVars, productVars, workVars, loanVars, borrowerVars, authVars>>

\* the callback of app.listen registers gracefulShutdown for SIGTERM and SIGINT
listening ==
    /\ ~process.exited /\ process.server = "listening" /\ ~process.registered
    /\ process' = [process EXCEPT !.registered = TRUE]
    /\ UNCHANGED <<pending, vaultVars, productVars, workVars, loanVars, borrowerVars, authVars>>

\* a client connects to the listening server or an open connection ends
connection(d) ==
    /\ ~process.exited
    /\ process.server \in (IF d = 1 THEN {"listening"} ELSE {"listening", "closing"})
    /\ process.connections + d \in 0..MaxConnections
    /\ process' = [process EXCEPT !.connections = @ + d]
    /\ UNCHANGED <<pending, vaultVars, productVars, workVars, loanVars, borrowerVars, authVars>>

\* SIGTERM or SIGINT: the listeners run in the order they were registered.  The
\* DatabaseConnection handler calls pool.end() and waits; gracefulShutdown, when
\* registered, calls closePool and waits.  A pool.end() on a pool that is ending
\* already is rejected by the driver: unhandled in the DatabaseConnection
\* handler, which ends the process with code 1 or only warns, as the runtime
\* is configured.
signal(crash) ==
    /\ ~process.exited /\ process.signals < MaxSignals
    /\ process' =
          IF process.pool # "open" /\ crash THEN Exit(1)
          ELSE [process EXCEPT !.signals = @ + 1,
                               !.pool = IF @ = "open" THEN "ending" ELSE @,
                               !.shutdowns = IF process.registered THEN @ + 1 ELSE @]
    /\ UNCHANGED <<pending, vaultVars, productVars, workVars, loanVars, borrowerVars, authVars>>

\* the first pool.end() resolves: the DatabaseConnection handler, first to wait
\* for it, continues with process.exit(0)
poolEnded ==
    /\ ~process.exited /\ process.pool = "ending"
    /\ process' = [Exit(0) EXCEPT !.pool = "ended"]
    /\ UNCHANGED <<pending, vaultVars, productVars, workVars, loanVars, borrowerVars, authVars>>

\* gracefulShutdown after `await db.closePool()`: closePool caught the rejection
\* of its pool.end() and returned.  serverInstance is set whenever gracefulShutdown
\* is registered; close() on a server that is closing or closed already calls its
\* callback with an error, and the callback exits all the same.
gracefulShutdown ==
    /\ ~process.exited /\ process.shutdowns > 0
    /\ process' =
          IF process.server = "listening"
          THEN [process EXCEPT !.shutdowns = @ - 1, !.server = "closing", !.timer = TRUE]
          ELSE Exit(0)
    /\ UNCHANGED <<pending, vaultVars, productVars, workVars, loanVars, borrowerVars, authVars>>

\* the callback of serverInstance.close: every connection has ended
serverClosed ==
    /\ ~process.exited /\ process.server = "closing" /\ process.connections = 0
    /\ process' = [Exit(0) EXCEPT !.server = "closed"]
    /\ UNCHANGED <<pending, vaultVars, productVars, workVars, loanVars, borrowerVars, authVars>>

\* setTimeout(..., 10000): 'Forced shutdown after timeout'
forcedShutdown ==
    /\ ~process.exited /\ process.timer
    /\ process' = Exit(1)
    /\ UNCHANGED <<pending, vaultVars, productVars, workVars, loanVars, borrowerVars, authVars>>

ShutdownNext ==
    \/ \E dbInitialized \in BOOLEAN : startServer(dbInitialized)
    \/ listening
    \/ \E d \in {-1, 1} : connection(d)
    \/ \E crash \in BOOLEAN : signal(crash)
    \/ poolEnded
    \/ gracefulShutdown
    \/ serverClosed
    \/ forcedShutdown

(***************************************************************************)
(* POST /api/loan-products/:id/calculate: validateLoanCalculation,         *)
(* LoanProductsController.calculateLoanDetails and                         *)
(* LoanProductsService.calculateLoanDetails.  A request body carries       *)
(* principal_amount as a decimal with two fraction digits, written here as *)
(* its number of hundredths, and optionally term_days.                     *)
(***************************************************************************)
MaxPrincipalSteps == 4

\* validateLoanCalculation
validateLoanCalculation(body) ==
    /\ Has(body, "principal_amount") /\ ValidAmount(body.principal_amount)
    /\ SkippedNumber(body, "term_days") \/ ValidTermDays(body.term_days)

\* term_days ? parseInt(term_days) : null, with 0 standing for null
ControllerTermDays(body) == IF SkippedNumber(body, "term_days") THEN 0 ELSE body.term_days

\* !product.is_active
NotActive(product) == ~product.is_active

\* a service that does not compare the principal with max_amount
ExceedsMaximumNever(principalAmount, product) == FALSE

\* principalAmount > product.max_amount, the column arriving as a decimal string
ExceedsMaximum(principalAmount, product) ==
    DblGreater(principalAmount, DblFromDecimal(product.max_amount, 100))

\* termDays || product.default_term_days
LoanTermDays(termDays, product) ==
    IF termDays = 0 THEN product.default_term_days ELSE termDays

\* a daily rate on a 360-day year
ReducingBalanceInterest360(principalAmount, rate, loanTermDays) ==
    DblMul(DblMul(principalAmount, DblDivInt(rate, 360)), DblFromInt(loanTermDays))

\* reducing_balance: dailyRate = rate / 365; principal * dailyRate * term
ReducingBalanceInterest(principalAmount, rate, loanTermDays) ==
    DblMul(DblMul(principalAmount, DblDivInt(rate, 365)), DblFromInt(loanTermDays))

\* flat_monthly: monthlyPeriods = term / 30; principal * rate * monthlyPeriods
FlatMonthlyInterest(principalAmount, rate, loanTermDays) ==
    DblMul(DblMul(principalAmount, rate), DblDivInt(DblFromInt(loanTermDays), 30))

\* let interestAmount = 0, then the branch of the product's interest_type
InterestAmount(principalAmount, product, loanTermDays) ==
    LET rate == DblFromDecimal(product.interest_rate, 10000)
    IN  IF product.interest_type = "flat_monthly"
        THEN FlatMonthlyInterest(principalAmount, rate, loanTermDays)
        ELSE IF product.interest_type = "reducing_balance"
        THEN ReducingBalanceInterest(principalAmount, rate, loanTermDays)
        ELSE DblZero

\* LoanProductsService.calculateLoanDetails, after the product was found: the
\* error thrown, or "" and the object returned.  Amounts of the result are the
\* hundredths that toFixed(2) printed;
\* principal_amount is the Number parsed from the request, whose shortest
\* decimal form is the request's.
LoanDetails(product, id, principalCents, termDays) ==
    LET principalAmount == DblFromDecimal(principalCents, 100)
        loanTermDays    == LoanTermDays(termDays, product)
        interestAmount  == InterestAmount(principalAmount, product, loanTermDays)
        totalDueAmount  == DblAdd(principalAmount, interestAmount)
    IN  IF NotActive(product) THEN [error |-> "Product is not active"]
        ELSE IF ExceedsMaximum(principalAmount, product)
        THEN [error |-> "Amount exceeds maximum limit"]
        ELSE [error |-> "",
              returned |->
                 [product_id |-> id,
                  product_name |-> product.name,
                  principal_amount |-> principalCents,
                  interest_rate |-> product.interest_rate,
                  interest_type |-> product.interest_type,
                  term_days |-> loanTermDays,
                  interest_amount |-> ToFixed2(interestAmount),
                  total_due_amount |-> ToFixed2(totalDueAmount),
                  grace_days |-> product.grace_days,
                  penalty_type |-> product.penalty_type,
                  penalty_value |-> product.penalty_value]]

\* const product = await this.getProductById(productId), then the rest
calculateLoanDetails(id, principalCents, termDays) ==
    LoanDetails(loan_products[id], id, principalCents, termDays)

\* the answer to one calculate request when the table holds products:
\* validator, controller, service
AnswerFor(products, id, body) ==
    LET result == LoanDetails(products[id], id, body.principal_amount,
                              ControllerTermDays(body))
        answer(status) == [op |-> "calculateLoanDetails", status |-> status,
                           id |-> id, body |-> body]
    IN  IF ~validateLoanCalculation(body) THEN answer(400)
        ELSE IF products[id] \in {NoRow, Gone} THEN answer(404)
        ELSE IF result.error # "" THEN answer(400)
        ELSE [op |-> "calculateLoanDetails", status |-> 200,
              id |-> id, body |-> body, calculation |-> result.returned]

CalculateAnswer(id, body) == AnswerFor(loan_products, id, body)

\* the exchange of one calculate request
Calculate(id, body) ==
    /\ id \in ProductIds
    /\ response' = CalculateAnswer(id, body)
    /\ UNCHANGED <<loan_products, loans, vaultVars, workVars, loanVars, borrowerVars, authVars, processVars>>

\* the principals (in hundredths) and terms the model asks about
Principals ==
    {0, 50, 100, 12345, 100000, 200001}
        \cup {300 * k : k \in 1..MaxPrincipalSteps}
Terms == {0, 1, 60, 3651}

CalculationBodies ==
    [principal_amount : Principals, term_days : Terms]
        \cup [principal_amount : {100000, 900}]

\* product rows as validated create and update requests leave them
CalcProducts ==
    [name : {"Student Quick Loan"}, interest_type : InterestTypes,
     interest_rate : {1, 2500, 50000}, max_amount : {200000},
     default_term_days : {60}, grace_days : {3}, penalty_type : {"fixed"},
     penalty_value : {5000}, is_active : BOOLEAN]

InitCalc ==
    /\ InitVault
    /\ InitWork
    /\ InitLoans
    /\ InitBorrowers
    /\ InitAuth
    /\ InitProcess
    /\ loans = {}
    /\ response = [op |-> "none", status |-> 0]
    /\ \E row \in CalcProducts :
          loan_products = [id \in ProductIds |-> IF id = 1 THEN row ELSE NoRow]

CalcNext ==
    \E id \in ProductIds, body \in CalculationBodies : Calculate(id, body)

SpecCalc == InitCalc /\ [][CalcNext]_vars

\* calculate requests between update and deactivate requests
QuoteBodies == [principal_amount : {30000, 100000}, term_days : {0, 30}]

QuoteNext ==
    \/ \E id \in ProductIds, body \in UpdateBodies : UpdateProduct(id, body)
    \/ \E id \in ProductIds : DeactivateProduct(id)
    \/ \E id \in ProductIds, body \in QuoteBodies : Calculate(id, body)

Init ==
    InitVault /\ InitProducts /\ InitWork /\ InitLoans /\ InitBorrowers /\ InitAuth
        /\ InitProcess

SpecVault == Init /\ [][VaultNext]_vars
SpecWork == Init /\ [][WorkNext]_vars
SpecProducts == Init /\ [][ProductsNext]_vars
SpecQuote == Init /\ [][QuoteNext]_vars
SpecBorrowers == Init /\ [][BorrowersNext]_vars

SpecAuth == Init /\ [][AuthNext]_vars

SpecNames == Init /\ [][NamesNext]_vars

SpecUpdates == Init /\ [][UpdatesNext]_vars

SpecShutdown == Init /\ [][ShutdownNext]_vars

SpecLoans == Init /\ [][LoansNext]_vars

Next == VaultNext \/ WorkNext \/ ProductsNext \/ CalcNext \/ QuoteNext \/ LoansNext \/ BorrowersNext
          \/ AuthNext \/ NamesNext \/ UpdatesNext
          \/ ShutdownNext

Spec == Init /\ [][Next]_vars
(***************************************************************************)
(* The vault ledger                                                        *)
(***************************************************************************)

\* C1: for every vault account, replaying the account's existing entries in
\* creation order and summing their signed amounts gives its current_balance.
RunningBalanceInvariant ==
    \A a \in VaultAccounts :
        Replay(vault_transaction_entries, a) = current_balance[a]

\* C2: every vault transaction present is balanced: the amounts of its debit
\* entries and of its credit entries have the same sum.
TransactionsBalanced ==
    \A t \in vault_transactions :
        SumOf(vault_transaction_entries, t, "debit")
            = SumOf(vault_transaction_entries, t, "credit")

\* C3: a step changes an account's current_balance only by creating a vault
\* transaction entry for that same account: the step appends one entry, and the
\* entry names the account.
BalanceChangesOnlyByOwnEntry ==
    [][\A a \in VaultAccounts :
          current_balance'[a] # current_balance[a] =>
              /\ Len(vault_transaction_entries') = Len(vault_transaction_entries) + 1
              /\ SubSeq(vault_transaction_entries', 1, Len(vault_transaction_entries))
                    = vault_transaction_entries
              /\ vault_transaction_entries'[Len(vault_transaction_entries')].vault_account_id = a
      ]_vars

\* an entry moved one account's balance while another account, with no entry,
\* kept the balance it started with
OwnEntryMovedBalance ==
    /\ Len(vault_transaction_entries) = 1
    /\ LET a == vault_transaction_entries[1].vault_account_id
       IN  /\ current_balance[a] = vault_transaction_entries[1].balance_after
           /\ current_balance[a] # 0
           /\ \A b \in VaultAccounts \ {a} : current_balance[b] = 0

(***************************************************************************)
(* DatabaseConnection.transaction                                          *)
(***************************************************************************)
Issued(statement) == \E i \in 1..Len(work.issued) : work.issued[i] = statement

\* C4: a unit of work run through transaction(callback) is all-or-nothing:
\* COMMIT is issued only after the callback finished without error; once the
\* catch block is left, ROLLBACK was issued if BEGIN, the callback or COMMIT
\* failed; and what is persisted is what was persisted before the call, with
\* all of the callback's writes when the call returned and none otherwise.
UnitOfWorkAllOrNothing ==
    /\ Issued("COMMIT") =>
          /\ work.done = Len(work.plan)
          /\ work.failed \in {"none", "COMMIT"}
    /\ (work.pc \in {"release", "done"} /\ work.failed \in {"BEGIN", "callback", "COMMIT"})
          => Issued("ROLLBACK")
    /\ work.pc # "idle" =>
          committed = work.before \cup
                        (IF work.outcome = "returned" THEN Range(work.plan) ELSE {})

\* a call whose callback wrote a row and then failed has ended, with ROLLBACK
\* issued and nothing of it persisted
AbortedAfterWrite ==
    /\ work.pc = "done"
    /\ work.failed = "callback"
    /\ work.done >= 1
    /\ Issued("ROLLBACK")
    /\ committed = work.before
(***************************************************************************)
(* calculateLoanDetails                                                    *)
(***************************************************************************)
Calculated == response.op = "calculateLoanDetails" /\ response.status = 200

\* the reference interest of a calculation, in hundredths, is
\* ReferenceNumerator / ReferenceDenominator:
\*   flat_monthly      principal * rate * (term / 30)
\*   reducing_balance  principal * (rate / 365) * term
\* with the principal in hundredths and the rate in ten-thousandths
ReferenceNumerator(c) ==
    BigMulSmall(BigMulSmall(BigFromInt(c.principal_amount), c.interest_rate), c.term_days)

ReferenceDenominator(c) ==
    IF c.interest_type = "flat_monthly" THEN 10000 * 30 ELSE 10000 * 365

BigLeq(a, b) == ~BigLess(b, a)

\* n hundredths is a nearest amount to the reference interest of c:
\* |n - N/D| <= 1/2, as 2nD <= 2N + D and 2N <= 2nD + D
NearestHundredth(n, c) ==
    LET d   == BigFromInt(ReferenceDenominator(c))
        n2d == BigMul(BigFromInt(2 * n), d)
        N2  == BigMulSmall(ReferenceNumerator(c), 2)
    IN  BigLeq(n2d, BigAdd(N2, d)) /\ BigLeq(N2, BigAdd(n2d, d))

\* n hundredths is the reference interest of c rounded half up:
\* n = floor(N/D + 1/2), as 2nD <= 2N + D < 2nD + 2D
RoundedHalfUp(n, c) ==
    LET d   == BigFromInt(ReferenceDenominator(c))
        n2d == BigMul(BigFromInt(2 * n), d)
        N2  == BigMulSmall(ReferenceNumerator(c), 2)
    IN  /\ BigLeq(n2d, BigAdd(N2, d))
        /\ BigLess(BigAdd(N2, d), BigAdd(n2d, BigMulSmall(d, 2)))

\* C5: the interest a calculation returns is the reference formula of the
\* product's interest type, to the nearest hundredth; flat_monthly at rate 0.25
\* over 60 days on 1000.00 gives interest 500.00 and total due 1500.00.
InterestIsReferenceFormula ==
    Calculated =>
        LET c == response.calculation
        IN  /\ NearestHundredth(c.interest_amount, c)
            /\ (/\ c.interest_type = "flat_monthly" /\ c.interest_rate = 2500
                /\ c.term_days = 60 /\ c.principal_amount = 100000)
                  => (c.interest_amount = 50000 /\ c.total_due_amount = 150000)

\* the example was calculated, the term taken from the product's default
ExampleCalculated ==
    /\ Calculated
    /\ "term_days" \notin DOMAIN response.body
    /\ response.calculation.interest_type = "flat_monthly"
    /\ response.calculation.interest_rate = 2500
    /\ response.calculation.principal_amount = 100000
    /\ response.calculation.term_days = 60
    /\ response.calculation.interest_amount = 50000
    /\ response.calculation.total_due_amount = 150000

\* C6: every result satisfies total_due_amount = principal_amount +
\* interest_amount on the returned two-decimal values.
TotalDueIsPrincipalPlusInterest ==
    Calculated =>
        response.calculation.total_due_amount
            = response.calculation.principal_amount + response.calculation.interest_amount

AmountsRoundedHalfUp ==
    Calculated =>
        LET c == response.calculation
        IN  /\ RoundedHalfUp(c.interest_amount, c)
            /\ RoundedHalfUp(c.total_due_amount - c.principal_amount, c)

(***************************************************************************)
(* Loan products                                                           *)
(***************************************************************************)
PricingFields == {"interest_type", "interest_rate", "max_amount", "default_term_days",
                  "grace_days", "penalty_type", "penalty_value"}

Pricing(row) == [f \in PricingFields |-> row[f]]

Referenced(id) == \E l \in loans : l.product_id = id

\* C9: no step changes the pricing fields of a product that a loan references.
ReferencedPricingImmutable ==
    [][\A id \in ProductIds :
          (Exists(id) /\ Referenced(id)) =>
              /\ loan_products'[id] \notin {NoRow, Gone}
              /\ Pricing(loan_products'[id]) = Pricing(loan_products[id])
      ]_vars

\* C10: every stored loan product has 0 < interest_rate <= 5.0.
InterestRateInRange ==
    \A id \in ProductIds :
        Exists(id) => (0 < loan_products[id].interest_rate
                          /\ loan_products[id].interest_rate <= 50000)
\* C11: two calculate invocations with the same product id, principal and term
\* get the same answer whatever is processed between them: no step changes the
\* answer that a calculate request gets.
CalculationIsPure ==
    [][\A id \in ProductIds, body \in QuoteBodies :
          AnswerFor(loan_products', id, body) = AnswerFor(loan_products, id, body)
      ]_vars
(***************************************************************************)
(* Loans and repayments                                                    *)
(***************************************************************************)
AllowedTransitions ==
    { <<"draft", "approved">>, <<"approved", "disbursed">>, <<"disbursed", "active">>,
      <<"active", "overdue">>, <<"active", "paid">>, <<"overdue", "paid">>,
      <<"active", "written_off">>, <<"overdue", "written_off">> }

HasLoan(S, l) == \E x \in S : x.id = l

\* C12: a loan's status changes only along the allowed adjacency list; paid and
\* written_off, which start no pair of the list, are never left.
StatusFollowsAdjacency ==
    [][\A l \in LoanIds :
          (HasLoan(loans, l) /\ HasLoan(loans', l)
              /\ LoanRow(loans', l).status # LoanRow(loans, l).status)
            => <<LoanRow(loans, l).status, LoanRow(loans', l).status>>
                    \in AllowedTransitions
      ]_vars

\* C13: an attempt at an illegal transition, such as disbursing a draft loan,
\* has no effect: no step takes a loan from draft to disbursed, and a step that
\* would leaves the loan record and the vault balances as they were.
DraftIsNotDisbursed ==
    [][\A l \in LoanIds :
          (HasLoan(loans, l) /\ LoanRow(loans, l).status = "draft")
            => /\ HasLoan(loans', l)
               /\ LoanRow(loans', l).status # "disbursed"
      ]_vars

RECURSIVE SumField(_, _, _)
\* the sum of column f over the rows of s that belong to loan l
SumField(s, l, f) ==
    IF s = << >> THEN 0
    ELSE (IF Head(s).loan_id = l THEN Head(s)[f] ELSE 0) + SumField(Tail(s), l, f)

Allocated(r) == r.allocation_penalty + r.allocation_interest + r.allocation_principal

\* C14: for every recorded repayment the three allocations and the overpayment
\* add up to amount_paid.  The table has no overpayment column: the
\* overpayment is what the allocations leave of amount_paid, so they must not
\* exceed it.
AllocationComplete ==
    \A i \in 1..Len(repayments) :
        \E overpayment \in 0..repayments[i].amount_paid :
            Allocated(repayments[i]) + overpayment = repayments[i].amount_paid

\* the penalties of loan l not yet covered by its repayments
OutstandingPenalty(l) ==
    SumField(penalties, l, "amount") - SumField(repayments, l, "allocation_penalty")

Min(a, b) == IF a < b THEN a ELSE b

\* C15: a repayment recorded while the loan has a penalty outstanding allocates
\* min(amount_paid, outstanding penalty) to the penalty first.
PenaltyAllocatedFirst ==
    [][Len(repayments') = Len(repayments) + 1 =>
          LET r == repayments'[Len(repayments')]
              outstanding == OutstandingPenalty(r.loan_id)
          IN  (outstanding > 0 /\ r.amount_paid > 0)
                => r.allocation_penalty = Min(r.amount_paid, outstanding)
      ]_vars

\* C16: repayments against one loan are serialized, each allocating against the
\* outstanding principal the earlier ones left: the principal allocated to a
\* loan never exceeds the loan's principal.
PrincipalNotAllocatedTwice ==
    \A x \in loans :
        SumField(repayments, x.id, "allocation_principal") <= x.principal_amount

\* C17: the code generated for a new borrower differs from the borrower_code of
\* every borrower that exists when the new borrower is inserted, so the insert
\* never meets the borrower_code uniqueness constraint.
GeneratedCodeIsUnique ==
    [][\A r \in RequestIds :
          (creating[r].pc = "insert" /\ creating'[r].pc = "done")
            => \A b \in borrowers : b.borrower_code # creating[r].code
      ]_vars

\* C18: at most one borrower carries an id_number; a create request that reached
\* the controller ends with 201 or with conflict (409), and the step that
\* answers 409 inserts no borrower row.
ConflictNeverPartiallyApplied ==
    /\ [](\A a \in borrowers, b \in borrowers : a.id_number = b.id_number => a = b)
    /\ [](\A r \in RequestIds :
            creating[r].pc = "done" => creating[r].status \in {201, 403, 409})
    /\ [][\A r \in RequestIds :
            /\ (creating[r].status # 409 /\ creating'[r].status = 409)
                 => borrowers' = borrowers
            /\ (creating[r].status # 201 /\ creating'[r].status = 201)
                 => \E b \in borrowers' : b.id = r /\ borrowers' = borrowers \cup {b}
         ]_vars

\* two requests with one id_number both passed the controller's checks; one was
\* created and the other met the constraint on insert and was answered 409
LoserOfInsertRaceGotConflict ==
    \E r1 \in RequestIds, r2 \in RequestIds :
        /\ r1 # r2
        /\ creating[r1].id_number = creating[r2].id_number
        /\ creating[r1].pc = "done" /\ creating[r1].status = 201
        /\ creating[r2].pc = "done" /\ creating[r2].status = 409
        /\ creating[r2].code # 0
        /\ Cardinality({b \in borrowers : b.id_number = creating[r1].id_number}) = 1

\* C19: on the create-borrower route only loan_officer, admin and superuser pass
\* authorization; every other role is answered 403 and the controller is not
\* invoked.
OnlyCreatorRolesPass ==
    \A r \in RequestIds :
        (creating[r].pc # "idle"
            /\ creating[r].role \notin {"loan_officer", "admin", "superuser"})
          => creating[r].pc = "done" /\ creating[r].status = 403

\* C20: once logoutUser has answered 'Logout successful' for a bearer token, the
\* session that token was issued for is inactive, so no token authenticates
\* through it, whatever refreshToken requests ran before or alongside.
LogoutEndsSession ==
    [][\A token \in Tokens :
          (response' = AuthAnswer("logoutUser", 200, token) /\ response' # response)
            => ~sessions'[token.sid].is_active
      ]_vars

\* C21: a refresh token is single-use.  A refreshToken request answers 'Token
\* refreshed successfully' only while the refresh token it was sent with is still
\* the one stored, so no second request succeeds with the same value, and the
\* pair it returns is the pair stored in an active session when it answers.
RefreshTokenSingleUse ==
    [][\A q \in RefreshRequestIds :
          (refreshing[q].pc = "update" /\ refreshing'[q].pc = "idle")
            => LET s == refreshing[q].id
               IN  /\ sessions[s].refresh_token = refreshing[q].refresh_token
                   /\ sessions'[s].is_active
                   /\ sessions'[s].session_token = refreshing[q].n
                   /\ sessions'[s].refresh_token = refreshing[q].n
      ]_vars

\* C22: no two borrowers have the same phone_primary, and a create request whose
\* primary phone a borrower already holds inserts nothing.
PhonePrimaryIsUnique ==
    /\ [](\A a \in borrowers, b \in borrowers :
             a.phone_primary = b.phone_primary => a = b)
    /\ [][\A r \in RequestIds :
            (creating[r].pc = "insert" /\ creating'[r].pc = "done"
                /\ \E b \in borrowers : b.phone_primary = creating[r].phone_primary)
              => borrowers' = borrowers /\ creating'[r].status = 409
         ]_vars

\* C23: no two loan products have names that are equal ignoring letter case.
ProductNamesUniqueIgnoringCase ==
    \A i \in ProductIds, j \in ProductIds :
        (i # j /\ Exists(i) /\ Exists(j))
          => Lower(loan_products[i].name) # Lower(loan_products[j].name)

\* the stored row of borrower id
BorrowerRow(S, id) == CHOOSE b \in S : b.id = id

\* an answer of operation op for borrower id is sent in this step
Answers(op, id) ==
    /\ response' # response
    /\ response'.op = op
    /\ response'.id = id

\* C24: blacklistBorrower on an existing borrower sets its status to
\* 'blacklisted' and reactivateBorrower sets it to 'active'; each changes only
\* status and notes of that borrower, and answers success only if the row changed.
BlacklistAndReactivateSetStatus ==
    [][\A b \in borrowers :
          /\ Answers("blacklistBorrower", b.id)
               => /\ b.id \in {x.id : x \in borrowers'}
                  /\ BorrowerRow(borrowers', b.id).status = "blacklisted"
          /\ Answers("reactivateBorrower", b.id)
               => /\ b.id \in {x.id : x \in borrowers'}
                  /\ BorrowerRow(borrowers', b.id).status = "active"
                  /\ response'.status = 200
          /\ (response'.op \in {"blacklistBorrower", "reactivateBorrower"}
                /\ response' # response)
               => /\ \A x \in borrowers : x.id # response'.id => x \in borrowers'
                  /\ response'.status = 200 => borrowers' # borrowers
      ]_vars

\* C25: updateKycStatus with 'approved' stores the status, the approving user in
\* kyc_approved_by and the approval time in kyc_approved_at; with any other status
\* it stores the status and leaves these two fields as they were.
KycApprovalIsRecorded ==
    [][\A b \in borrowers :
          Answers("updateKycStatus", b.id)
            => /\ b.id \in {x.id : x \in borrowers'}
               /\ LET new == BorrowerRow(borrowers', b.id)
                  IN  IF new.kyc_status = "approved"
                      THEN new.kyc_approved_by = "officer" /\ new.kyc_approved_at = 1
                      ELSE /\ new.kyc_approved_by = b.kyc_approved_by
                           /\ new.kyc_approved_at = b.kyc_approved_at
               /\ response'.status = 200
      ]_vars

\* C26: the pagination block of a paginated response carries the metadata of the
\* service: total_items is the number of matching rows, total_pages is
\* ceil(total_items / limit), has_next holds exactly when page < total_pages and
\* has_previous exactly when page > 1.
PaginationCarriesMetadata ==
    [][(response' # response /\ response'.op = "getAllBorrowers")
          => LET p == response'.pagination
             IN  /\ p.total_items = Cardinality(borrowers)
                 /\ p.total_pages = (p.total_items + p.limit - 1) \div p.limit
                 /\ p.has_next = (p.page < p.total_pages)
                 /\ p.has_previous = (p.page > 1)
      ]_vars

\* C27: a calculation uses the product's default_term_days exactly when the
\* request supplies no term_days, and uses the supplied term_days, returned as
\* term_days, for every value supplied.
TermOverrideUsedWhenSupplied ==
    (response.op = "calculateLoanDetails" /\ response.status = 200)
      => response.calculation.term_days =
            IF Has(response.body, "term_days")
            THEN response.body.term_days
            ELSE loan_products[response.id].default_term_days

\* C29: when the callback passed to transaction fails, the call fails with the
\* callback's error, not with another one and not silently; when nothing fails
\* the call returns the callback's result.
CallbackErrorPropagated ==
    work.pc = "done" =>
        /\ work.failed = "callback" => work.outcome = "threw" /\ work.thrown = "callback"
        /\ work.failed = "none" => work.outcome = "returned"

\* C28: the process exits with code 0 only after the database pool has been
\* closed and the HTTP server, when one was started, has finished closing.
ExitZeroOnlyAfterClosing ==
    (process.exited /\ process.code = 0)
      => /\ process.pool = "ended"
         /\ process.server \in {"none", "closed"}
====
